---- MODULE Spec2Model ----
(***************************************************************************)
(* Model of the numeric display formatter (useBigNumberFormatter) and of   *)
(* the Metamask validation (validateMetamask) of injective-ui.             *)
(*                                                                         *)
(* Texts are sequences of one-character strings.  A decimal is a record    *)
(* [nan, s, c, e] after bignumber.js: s the sign, c the significant digits *)
(* (no leading and no trailing zero, empty for zero), e the power of ten   *)
(* of the first digit, so that 1234.5 is c = <<1,2,3,4,5>>, e = 3.         *)
(* Arithmetic is done digit by digit and is exact at any size.             *)
(***************************************************************************)
EXTENDS Integers, Sequences, FiniteSets, TLC

(***************************************************************************)
(* Arbitrary-precision decimals (BigNumber / BigNumberInBase)              *)
(***************************************************************************)

DIGITS == <<"0", "1", "2", "3", "4", "5", "6", "7", "8", "9">>

IsDigit(ch) == \E i \in 1..10 : DIGITS[i] = ch

DigitOf(ch) == (CHOOSE i \in 1..10 : DIGITS[i] = ch) - 1

DigitChar(d) == DIGITS[d + 1]

DigitsToChars(ds) == [i \in 1..Len(ds) |-> DigitChar(ds[i])]

NaN == [nan |-> TRUE, s |-> 1, c |-> <<>>, e |-> 0]

ZERO_IN_BASE == [nan |-> FALSE, s |-> 1, c |-> <<>>, e |-> 0]

One == [nan |-> FALSE, s |-> 1, c |-> <<1>>, e |-> 0]

RECURSIVE StripLeading(_)
StripLeading(ds) ==
  IF ds # <<>> /\ Head(ds) = 0 THEN StripLeading(Tail(ds)) ELSE ds

RECURSIVE StripTrailing(_)
StripTrailing(ds) ==
  IF ds # <<>> /\ ds[Len(ds)] = 0
    THEN StripTrailing(SubSeq(ds, 1, Len(ds) - 1))
    ELSE ds

\* The decimal of sign s whose digits are ds, the first one at power e.
Normalise(s, ds, e) ==
  LET lead == StripLeading(ds)
      core == StripTrailing(lead)
  IN  IF core = <<>>
        THEN ZERO_IN_BASE
        ELSE [nan |-> FALSE, s |-> s, c |-> core,
              e |-> e - (Len(ds) - Len(lead))]

IsNaN(a) == a.nan

IsZero(a) == ~a.nan /\ a.c = <<>>

\* The digit of a at power p.
DigitAt(a, p) ==
  LET i == a.e - p + 1
  IN  IF i >= 1 /\ i <= Len(a.c) THEN a.c[i] ELSE 0

\* The power of the last significant digit.
LowExp(a) == IF a.c = <<>> THEN 0 ELSE a.e - Len(a.c) + 1

Min2(x, y) == IF x <= y THEN x ELSE y

Max2(x, y) == IF x >= y THEN x ELSE y

RECURSIVE CompareDigits(_, _)
CompareDigits(x, y) ==
  IF x = <<>> THEN (IF y = <<>> THEN 0 ELSE -1)
  ELSE IF y = <<>> THEN 1
  ELSE IF Head(x) # Head(y) THEN (IF Head(x) > Head(y) THEN 1 ELSE -1)
  ELSE CompareDigits(Tail(x), Tail(y))

CompareMag(a, b) ==
  IF a.c = <<>> THEN (IF b.c = <<>> THEN 0 ELSE -1)
  ELSE IF b.c = <<>> THEN 1
  ELSE IF a.e # b.e THEN (IF a.e > b.e THEN 1 ELSE -1)
  ELSE CompareDigits(a.c, b.c)

\* -1, 0 or 1; neither operand is NaN.
Compare(a, b) ==
  IF a.s # b.s THEN a.s
  ELSE a.s * CompareMag(a, b)

\* Every comparison with NaN is false.
Eq(a, b) == ~a.nan /\ ~b.nan /\ Compare(a, b) = 0

Lt(a, b) == ~a.nan /\ ~b.nan /\ Compare(a, b) < 0

Lte(a, b) == ~a.nan /\ ~b.nan /\ Compare(a, b) <= 0

Gte(a, b) == ~a.nan /\ ~b.nan /\ Compare(a, b) >= 0

Abs(a) == [a EXCEPT !.s = 1]

Negated(a) == IF a.nan \/ a.c = <<>> THEN a ELSE [a EXCEPT !.s = -a.s]

ShiftedBy(a, k) == IF a.nan \/ a.c = <<>> THEN a ELSE [a EXCEPT !.e = a.e + k]

RECURSIVE AddDigits(_, _, _, _, _)
AddDigits(a, b, p, hi, carry) ==
  IF p > hi THEN (IF carry = 0 THEN <<>> ELSE <<carry>>)
  ELSE LET t == DigitAt(a, p) + DigitAt(b, p) + carry
       IN  AddDigits(a, b, p + 1, hi, t \div 10) \o <<t % 10>>

\* |a| + |b|
AddMag(a, b) ==
  IF a.c = <<>> THEN Abs(b)
  ELSE IF b.c = <<>> THEN Abs(a)
  ELSE LET lo == Min2(LowExp(a), LowExp(b))
           hi == Max2(a.e, b.e)
           ds == AddDigits(a, b, lo, hi, 0)
       IN  Normalise(1, ds, lo + Len(ds) - 1)

RECURSIVE SubDigits(_, _, _, _, _)
SubDigits(a, b, p, hi, borrow) ==
  IF p > hi THEN <<>>
  ELSE LET t == DigitAt(a, p) - DigitAt(b, p) - borrow
       IN  SubDigits(a, b, p + 1, hi, IF t < 0 THEN 1 ELSE 0)
             \o <<IF t < 0 THEN t + 10 ELSE t>>

\* |a| - |b|, for |a| >= |b|
SubMag(a, b) ==
  IF b.c = <<>> THEN Abs(a)
  ELSE LET lo == Min2(LowExp(a), LowExp(b))
           ds == SubDigits(a, b, lo, a.e, 0)
       IN  Normalise(1, ds, a.e)

WithSign(a, s) == IF a.nan \/ a.c = <<>> THEN a ELSE [a EXCEPT !.s = s]

Plus(a, b) ==
  IF a.nan \/ b.nan THEN NaN
  ELSE IF a.s = b.s THEN WithSign(AddMag(a, b), a.s)
  ELSE IF CompareMag(a, b) >= 0 THEN WithSign(SubMag(a, b), a.s)
  ELSE WithSign(SubMag(b, a), b.s)

Minus(a, b) == Plus(a, Negated(b))

\* BigNumber rounding modes (bignumber.js numbering).
ROUND_UP == 0

ROUND_DOWN == 1

ROUND_HALF_UP == 4

\* a rounded to dp decimal places under rounding mode rm; a is not NaN.
Round(a, dp, rm) ==
  IF a.c = <<>> \/ LowExp(a) >= -dp THEN a
  ELSE LET n     == a.e + dp + 1
           trunc == IF n <= 0 THEN ZERO_IN_BASE
                    ELSE Normalise(1, SubSeq(a.c, 1, n), a.e)
           first == DigitAt(a, -dp - 1)
           up    == CASE rm = ROUND_UP -> TRUE
                      [] rm = ROUND_DOWN -> FALSE
                      [] rm = ROUND_HALF_UP -> first >= 5
           mag   == IF up THEN AddMag(trunc, ShiftedBy(One, -dp)) ELSE trunc
       IN  WithSign(mag, a.s)

IntDigits(a) ==
  IF a.c = <<>> \/ a.e < 0 THEN <<0>>
  ELSE [i \in 1..(a.e + 1) |-> DigitAt(a, a.e - i + 1)]

FracDigits(a, dp) == [i \in 1..dp |-> DigitAt(a, -i)]

\* The number of decimal places an exact rendering needs.
DecimalPlacesOf(a) == IF LowExp(a) < 0 THEN -LowExp(a) ELSE 0

NaNText == <<"N", "a", "N">>

SignText(a) == IF a.s < 0 /\ a.c # <<>> THEN <<"-">> ELSE <<>>

FracText(r, dp) ==
  IF dp > 0 THEN <<".">> \o DigitsToChars(FracDigits(r, dp)) ELSE <<>>

\* BigNumber.toFixed(dp, rm): the sign is that of the unrounded value.
ToFixed(a, dp, rm) ==
  IF a.nan THEN NaNText
  ELSE LET r == Round(a, dp, rm)
       IN  SignText(a) \o DigitsToChars(IntDigits(r)) \o FracText(r, dp)

\* BigNumber.toFixed(): normal notation, unrounded.
ToFixedExact(a) ==
  IF a.nan THEN NaNText
  ELSE SignText(a) \o DigitsToChars(IntDigits(a))
         \o FracText(a, DecimalPlacesOf(a))

\* Digits in groups of three from the right, separated by commas.
RECURSIVE Group(_)
Group(chars) ==
  IF Len(chars) <= 3 THEN chars
  ELSE Group(SubSeq(chars, 1, Len(chars) - 3)) \o <<",">>
         \o SubSeq(chars, Len(chars) - 2, Len(chars))

\* BigNumber.toFormat(dp, rm) under the default FORMAT.
ToFormat(a, dp, rm) ==
  IF a.nan THEN NaNText
  ELSE LET r == Round(a, dp, rm)
       IN  SignText(a) \o Group(DigitsToChars(IntDigits(r))) \o FracText(r, dp)

\* new BigNumberInBase(text): -?(digits(.digits*)? | .digits), NaN otherwise.
ParseDecimal(chars) ==
  LET neg  == chars # <<>> /\ Head(chars) = "-"
      body == IF neg THEN Tail(chars) ELSE chars
      dots == {i \in 1..Len(body) : body[i] = "."}
      ok   == /\ Cardinality(dots) <= 1
              /\ \A i \in 1..Len(body) : body[i] = "." \/ IsDigit(body[i])
              /\ \E i \in 1..Len(body) : IsDigit(body[i])
      dot  == IF dots = {} THEN Len(body) + 1 ELSE CHOOSE i \in dots : TRUE
      ds   == [i \in 1..(Len(body) - Cardinality(dots)) |->
                 DigitOf(body[IF i < dot THEN i ELSE i + 1])]
  IN  IF ~ok THEN NaN
      ELSE Normalise(IF neg THEN -1 ELSE 1, ds, dot - 2)

(***************************************************************************)
(* Optional values: {} is undefined, {x} is x                              *)
(***************************************************************************)

Undefined == {}

Some(x) == {x}

The(o) == CHOOSE x \in o : TRUE

\* o ?? d
OrElse(o, d) == IF o = Undefined THEN d ELSE The(o)

\* !!o for an optional number held as a decimal: undefined, 0 and NaN are falsy.
TruthyNumber(o) == o # Undefined /\ ~The(o).nan /\ The(o).c # <<>>

(***************************************************************************)
(* Intl.NumberFormat('en-US', {notation: 'compact', compactDisplay:        *)
(* 'short'}).format and the conversions around it                          *)
(***************************************************************************)

\* BigNumber.toNumber(), then new BigNumberInBase(number): a decimal of at
\* most 15 significant digits survives the trip through a double unchanged,
\* and every input of the model is that short; NaN stays NaN.
ToNumber(a) == IF a.nan THEN NaN ELSE Normalise(a.s, a.c, a.e)

\* The power of ten divided out for a number whose first digit is at power
\* mag: none below 1000, then K, M, B, and T from 10^12 on.
GetMultiplier(mag) ==
  IF mag < 3 THEN 0 ELSE IF mag >= 15 THEN 12 ELSE 3 * (mag \div 3)

Suffix(m) ==
  CASE m = 0 -> <<>>
    [] m = 3 -> <<"K">>
    [] m = 6 -> <<"M">>
    [] m = 9 -> <<"B">>
    [] m = 12 -> <<"T">>

\* Compact rounding: to an integer, but keeping two significant digits,
\* halves away from zero.
CompactRound(q) == Round(q, IF q.e >= 1 THEN 0 ELSE 1 - q.e, ROUND_HALF_UP)

\* A rounding that carries into the next power (999,999 -> 1,000K) is scaled
\* again (-> 1M).  Integer parts of five digits or more are grouped.
CompactFormat(n) ==
  IF n.nan THEN NaNText
  ELSE IF n.c = <<>> THEN <<"0">>
  ELSE LET m1   == GetMultiplier(n.e)
           q1   == CompactRound(ShiftedBy(Abs(n), -m1))
           m2   == IF q1.e # n.e - m1 THEN GetMultiplier(n.e + 1) ELSE m1
           q    == IF m2 # m1 THEN CompactRound(ShiftedBy(q1, m1 - m2)) ELSE q1
           int  == DigitsToChars(IntDigits(q))
           intG == IF Len(int) >= 5 THEN Group(int) ELSE int
       IN  SignText(n) \o intG \o FracText(q, DecimalPlacesOf(q)) \o Suffix(m2)

\* String.replaceAll(',', '')
RECURSIVE RemoveCommas(_)
RemoveCommas(chars) ==
  IF chars = <<>> THEN <<>>
  ELSE IF Head(chars) = "," THEN RemoveCommas(Tail(chars))
  ELSE <<Head(chars)>> \o RemoveCommas(Tail(chars))

\* getExactDecimalsFromNumber of @injectivelabs/utils: the count of characters
\* after the decimal point, 0 when there is no point or no fraction.
getExactDecimalsFromNumber(chars) ==
  LET dots == {i \in 1..Len(chars) : chars[i] = "."}
  IN  IF dots = {} THEN 0
      ELSE LET dot == CHOOSE i \in dots : TRUE
           IN  IF \A i \in (dot + 1)..Len(chars) : chars[i] = "0" THEN 0
               ELSE Len(chars) - dot

(***************************************************************************)
(* The formatter's constants and helpers                                   *)
(***************************************************************************)

DEFAULT_DECIMAL_PLACES == 2

DEFAULT_MINIMAL_DISPLAY_DECIMAL_PLACES == 4

DEFAULT_MAX_MINIMAL_DISPLAY_DECIMAL_PLACES == 12

\* 0.005
DEFAULT_INJ_FEE == [nan |-> FALSE, s |-> 1, c |-> <<5>>, e |-> -3]

DEFAULT_ROUNDING_MODE == ROUND_DOWN

\* Stands for the approximation marker U+2248.
APPROX == "~"

Repeat(ch, n) == [i \in 1..n |-> ch]

getFormattedZeroValue(decimalPlaces) ==
  IF decimalPlaces > 0
    THEN <<"0", ".">> \o Repeat("0", decimalPlaces)
    ELSE <<"0", ".", "0">>

\* The units table as powers of ten; 0 for a character that is no unit.
UnitPower(unit) ==
  CASE unit = "K" -> 3
    [] unit = "M" -> 6
    [] unit = "B" -> 9
    [] unit = "T" -> 12
    [] OTHER -> 0

\* Undefined when the text is empty or does not end in a unit.
unAbbreviateNumber(value) ==
  IF value = <<>> \/ UnitPower(value[Len(value)]) = 0 THEN Undefined
  ELSE LET formattedValue ==
             LET bare == RemoveCommas(value)
             IN  SubSeq(bare, 1, Len(bare) - 1)
       IN  Some(ShiftedBy(ParseDecimal(formattedValue),
                          UnitPower(value[Len(value)])))

\* abbreviateNumber without the check of the text against the input.
abbreviateNumberUnmarked(number) == CompactFormat(number)

abbreviateNumber(number) ==
  LET abbreviatedValue == CompactFormat(number)
      unabbreviated    == unAbbreviateNumber(abbreviatedValue)
      abbreviatedValueMatchesInput ==
        Eq(number, OrElse(unabbreviated, ParseDecimal(<<"0">>)))
  IN  IF abbreviatedValueMatchesInput
        THEN abbreviatedValue
        ELSE <<APPROX>> \o abbreviatedValue

getNumberMinimalDecimals(v, defaultMinimalDecimalPlaces, displayAbsoluteDecimalPlace) ==
  LET valueExactDecimals == getExactDecimalsFromNumber(ToFixedExact(v))
      minimalDecimalPlaces ==
        OrElse(defaultMinimalDecimalPlaces,
               DEFAULT_MINIMAL_DISPLAY_DECIMAL_PLACES)
      minNumberFromDefaultMinDecimals == ShiftedBy(One, -minimalDecimalPlaces)
  IN  IF Eq(v, ZERO_IN_BASE)
        THEN [minimalDecimalPlaces |-> 2, minimalDisplayAmount |-> ZERO_IN_BASE]
      ELSE IF Lte(v, minNumberFromDefaultMinDecimals)
                /\ displayAbsoluteDecimalPlace
        THEN LET actualMinimalDecimalPlaces ==
                   IF valueExactDecimals
                        > DEFAULT_MAX_MINIMAL_DISPLAY_DECIMAL_PLACES
                     THEN DEFAULT_MAX_MINIMAL_DISPLAY_DECIMAL_PLACES
                     ELSE valueExactDecimals
             IN  [minimalDecimalPlaces |-> actualMinimalDecimalPlaces,
                  minimalDisplayAmount |->
                    ShiftedBy(One, -actualMinimalDecimalPlaces)]
      ELSE [minimalDecimalPlaces |-> minimalDecimalPlaces,
            minimalDisplayAmount |-> ShiftedBy(One, -minimalDecimalPlaces)]

(***************************************************************************)
(* useBigNumberFormatter: the options and the computed values              *)
(***************************************************************************)

DecimalPlaces(o) == OrElse(o.decimalPlaces, DEFAULT_DECIMAL_PLACES)

InjFee(o) == OrElse(o.injFee, DEFAULT_INJ_FEE)

\* options.roundingMode || DEFAULT_ROUNDING_MODE: undefined and 0 are falsy.
RoundingMode(o) ==
  IF o.roundingMode = Undefined \/ The(o.roundingMode) = 0
    THEN DEFAULT_ROUNDING_MODE
    ELSE The(o.roundingMode)

\* !!options.displayAbsoluteDecimalPlace
DisplayAbsoluteDecimalPlace(o) ==
  o.displayAbsoluteDecimalPlace # Undefined /\ The(o.displayAbsoluteDecimalPlace)

\* !value.value: undefined, null, '', 0 and NaN are falsy; an object is not.
Falsy(raw) ==
  \/ raw.t \in {"undefined", "null"}
  \/ raw.t = "string" /\ raw.s = <<>>
  \/ raw.t = "number" /\ (raw.n.nan \/ raw.n.c = <<>>)

\* valueToBigNumber without the guard for a missing value.
ValueToBigNumberNoFalsy(raw) ==
  IF raw.t = "bignumber" THEN raw.n
  ELSE IF raw.t = "string" THEN ParseDecimal(raw.s)
  ELSE raw.n

ValueToBigNumberOf(raw) ==
  IF Falsy(raw) THEN ParseDecimal(<<"0">>)
  ELSE IF raw.t = "bignumber" THEN raw.n
  ELSE IF raw.t = "string" THEN ParseDecimal(raw.s)
  ELSE raw.n

\* !!options.abbreviationFloor && value.gte(options.abbreviationFloor)
Abbreviates(bn, o) ==
  TruthyNumber(o.abbreviationFloor) /\ Gte(bn, The(o.abbreviationFloor))

\* valueToFixed with toFixed() called without its arguments.
ValueToFixedUnrounded(bn, o) ==
  IF IsNaN(bn) \/ IsZero(bn) THEN getFormattedZeroValue(DecimalPlaces(o))
  ELSE IF Abbreviates(bn, o) THEN abbreviateNumber(ToNumber(bn))
  ELSE ToFixedExact(bn)

ValueToFixedOf(bn, o) ==
  IF IsNaN(bn) \/ IsZero(bn) THEN getFormattedZeroValue(DecimalPlaces(o))
  ELSE IF Abbreviates(bn, o) THEN abbreviateNumber(ToNumber(bn))
  ELSE ToFixed(bn, DecimalPlaces(o), RoundingMode(o))

ValueToStringOf(bn, o) ==
  IF IsNaN(bn) \/ IsZero(bn) THEN getFormattedZeroValue(DecimalPlaces(o))
  ELSE IF Abbreviates(bn, o) THEN abbreviateNumber(ToNumber(bn))
  ELSE LET min == getNumberMinimalDecimals(bn, o.minimalDecimalPlaces,
                                           DisplayAbsoluteDecimalPlace(o))
       IN  IF Lt(Abs(bn), min.minimalDisplayAmount)
             THEN <<"<", " ">> \o ToFormat(min.minimalDisplayAmount,
                                           min.minimalDecimalPlaces,
                                           ROUND_HALF_UP)
             ELSE ToFormat(bn, DecimalPlaces(o), RoundingMode(o))

\* valueWithGasBuffer without the comparison with the fee.
ValueWithGasBufferUnfloored(bn, o) ==
  IF IsNaN(bn) THEN ParseDecimal(<<"0">>)
  ELSE Minus(bn, InjFee(o))

ValueWithGasBufferOf(bn, o) ==
  IF IsNaN(bn) \/ Lte(bn, InjFee(o)) THEN ParseDecimal(<<"0">>)
  ELSE Minus(bn, InjFee(o))

\* Whether the getter returns before it reads valueWithGasBuffer.
BufferedToFixedReturnsEarly(bn) == IsNaN(bn) \/ IsZero(bn)

ValueWithGasBufferToFixedOf(bn, o) ==
  IF BufferedToFixedReturnsEarly(bn)
    THEN getFormattedZeroValue(DecimalPlaces(o))
    ELSE ToFixed(ValueWithGasBufferOf(bn, o), DecimalPlaces(o), RoundingMode(o))

BufferedToStringReturnsEarly(bn, o) ==
  IsNaN(bn) \/ IsZero(bn) \/ Abbreviates(bn, o)

\* valueWithGasBufferToString deciding the abbreviation on the buffered value.
ValueWithGasBufferToStringAbbreviatesBuffered(bn, o) ==
  LET buffered == IF IsNaN(bn) \/ Lte(bn, InjFee(o)) THEN ParseDecimal(<<"0">>)
                  ELSE Minus(bn, InjFee(o))
  IN  IF IsNaN(bn) \/ IsZero(bn) THEN getFormattedZeroValue(DecimalPlaces(o))
      ELSE IF Abbreviates(buffered, o) THEN abbreviateNumber(ToNumber(buffered))
      ELSE LET min == getNumberMinimalDecimals(bn, o.minimalDecimalPlaces,
                                               DisplayAbsoluteDecimalPlace(o))
           IN  IF Lt(Abs(buffered), min.minimalDisplayAmount)
                 THEN <<"<", " ">> \o ToFormat(min.minimalDisplayAmount,
                                               min.minimalDecimalPlaces,
                                               ROUND_HALF_UP)
                 ELSE ToFormat(buffered, DecimalPlaces(o), RoundingMode(o))

ValueWithGasBufferToStringOf(bn, o) ==
  IF IsNaN(bn) \/ IsZero(bn) THEN getFormattedZeroValue(DecimalPlaces(o))
  ELSE IF Abbreviates(bn, o) THEN abbreviateNumber(ToNumber(bn))
  ELSE LET min == getNumberMinimalDecimals(bn, o.minimalDecimalPlaces,
                                           DisplayAbsoluteDecimalPlace(o))
           buffered == ValueWithGasBufferOf(bn, o)
       IN  IF Lt(Abs(buffered), min.minimalDisplayAmount)
             THEN <<"<", " ">> \o ToFormat(min.minimalDisplayAmount,
                                           min.minimalDecimalPlaces,
                                           ROUND_HALF_UP)
             ELSE ToFormat(buffered, DecimalPlaces(o), RoundingMode(o))

(***************************************************************************)
(* The inputs of the model                                                 *)
(***************************************************************************)

MaxDecimalPlaces == 2

MaxMinimalDecimalPlaces == 2

MaxOptionsSet == 2

UndefinedValue == [t |-> "undefined", s |-> <<>>, n |-> NaN]

NullValue == [t |-> "null", s |-> <<>>, n |-> NaN]

Str(chars) == [t |-> "string", s |-> chars, n |-> NaN]

Num(n) == [t |-> "number", s |-> <<>>, n |-> n]

Big(n) == [t |-> "bignumber", s |-> <<>>, n |-> n]

\* The decimal with significant digits ds, the first at power e.
Dec(ds, e) == [nan |-> FALSE, s |-> 1, c |-> ds, e |-> e]

Texts ==
  { <<>>,
    <<"a", "b", "c">>,
    <<"1", ".", "2", ".", "3">>,
    <<"0">>,
    <<"0", ".", "0", "0", "0", "0", "0", "0", "0", "1">>,
    <<"0", ".", "0", "0", "0", "0", "0", "0", "0", "0", "0", "0", "0", "0", "1">>,
    <<"0", ".", "0", "0", "0", "0", "0", "1", "0", "1", "0", "1", "0", "2">>,
    <<"0", ".", "0", "0", "0", "1">>,
    <<"0", ".", "0", "0", "4">>,
    <<"0", ".", "0", "0", "5">>,
    <<"0", ".", "0", "1">>,
    <<"0", ".", "5">>,
    <<"1", ".", "0", "0", "1">>,
    <<"9", ".", "9", "9", "5">>,
    <<"-", "5", ".", "2", "5">>,
    <<"-", "0", ".", "0", "0", "0", "0", "1">>,
    <<"1", "2", "3", "4", ".", "5", "6", "7", "8">>,
    <<"1", "0", "0", "0", "0", "0", "0">>,
    <<"1", "5", "0", "0", "0", "0", "0", "0", "0", "0", "0", "0", "0">> }

Numbers ==
  { ZERO_IN_BASE, NaN,
    Dec(<<5>>, 2),                      \* 500
    Dec(<<9, 9, 9, 5>>, 2),             \* 999.5
    Dec(<<1>>, 3),                      \* 1000
    Dec(<<1, 2, 3, 4, 4, 5, 5>>, 6),    \* 1234455
    Dec(<<9, 9, 9, 9, 9, 9>>, 5),       \* 999999
    Dec(<<2, 5>>, 9),                   \* 2500000000
    Dec(<<1>>, 16) }                    \* 10000000000000000

BigNumbers ==
  { NaN, ZERO_IN_BASE,
    Dec(<<1, 5>>, 3),                   \* 1500
    Dec(<<1, 2, 3, 4, 5>>, 1) }         \* 12.345

RawValues ==
  {UndefinedValue, NullValue}
    \cup {Str(t) : t \in Texts}
    \cup {Num(n) : n \in Numbers}
    \cup {Big(n) : n \in BigNumbers}

Floors == {Undefined, Some(Dec(<<1>>, 2)), Some(Dec(<<1>>, 3))}

Fees == {Undefined, Some(ZERO_IN_BASE), Some(Dec(<<1>>, 3))}

RoundingModes ==
  {Undefined, Some(ROUND_UP), Some(ROUND_DOWN), Some(ROUND_HALF_UP)}

OptionFields ==
  {"decimalPlaces", "minimalDecimalPlaces", "abbreviationFloor", "injFee",
   "roundingMode", "displayAbsoluteDecimalPlace"}

\* Every options record that sets at most MaxOptionsSet of its fields.
OptionsSet ==
  { o \in [ decimalPlaces :
              {Undefined} \cup {Some(d) : d \in 0..MaxDecimalPlaces},
            minimalDecimalPlaces :
              {Undefined} \cup {Some(m) : m \in 0..MaxMinimalDecimalPlaces},
            abbreviationFloor : Floors,
            injFee : Fees,
            roundingMode : RoundingModes,
            displayAbsoluteDecimalPlace : {Undefined, Some(TRUE), Some(FALSE)} ] :
      Cardinality({f \in OptionFields : o[f] # Undefined}) <= MaxOptionsSet }

(***************************************************************************)
(* validateMetamask: texts, the wallet's answers and the checks            *)
(***************************************************************************)

LowerOf(ch) ==
  CASE ch = "A" -> "a"
    [] ch = "B" -> "b"
    [] ch = "C" -> "c"
    [] ch = "D" -> "d"
    [] ch = "E" -> "e"
    [] ch = "F" -> "f"
    [] ch = "X" -> "x"
    [] OTHER -> ch

\* String.toLowerCase()
ToLowerCase(chars) == [i \in 1..Len(chars) |-> LowerOf(chars[i])]

HEX_DIGITS ==
  <<"0", "1", "2", "3", "4", "5", "6", "7", "8", "9",
    "a", "b", "c", "d", "e", "f">>

IsHexDigit(ch) == \E i \in 1..16 : HEX_DIGITS[i] = LowerOf(ch)

HexDigitOf(ch) == (CHOOSE i \in 1..16 : HEX_DIGITS[i] = LowerOf(ch)) - 1

\* The value of the longest prefix of hexadecimal digits of chars.
RECURSIVE HexPrefixValue(_, _)
HexPrefixValue(chars, acc) ==
  IF chars = <<>> \/ ~IsHexDigit(Head(chars)) THEN acc
  ELSE HexPrefixValue(Tail(chars), 16 * acc + HexDigitOf(Head(chars)))

\* parseInt(text, 16): an optional 0x prefix, then hexadecimal digits up to
\* the first other character; Undefined stands for NaN.
ParseInt16(chars) ==
  LET body == IF Len(chars) >= 2 /\ chars[1] = "0" /\ LowerOf(chars[2]) = "x"
                THEN SubSeq(chars, 3, Len(chars))
                ELSE chars
  IN  IF body = <<>> \/ ~IsHexDigit(Head(body)) THEN Undefined
      ELSE Some(HexPrefixValue(body, 0))

\* EthereumChainId
Mainnet == 1

Goerli == 5

Kovan == 42

LockedMessage ==
  "Your Metamask is currently locked. Please unlock your Metamask."

WrongAddressMessage ==
  "You are connected to the wrong address. Please logout and connect to Metamask again"

MetamaskException(message) == [type |-> "MetamaskException", message |-> message]

\* What a rejected wallet call raises; validateMetamask lets it pass through.
WalletRejection == [type |-> "WalletRejection", message |-> "rejected"]

MetamaskIsLocked(walletAddresses) == Len(walletAddresses) = 0

\* The address check comparing the texts as they are.
ActiveAddressDoesntMatchCaseSensitive(addr, walletAddresses) ==
  addr # <<>> /\ walletAddresses[1] # addr

\* address && metamaskActiveAddress.toLowerCase() !== address.toLowerCase()
ActiveAddressDoesntMatch(addr, walletAddresses) ==
  addr # <<>> /\ ToLowerCase(walletAddresses[1]) # ToLowerCase(addr)

\* chainId !== parseInt(await walletStrategy.getEthereumChainId(), 16)
ChainIdDoesntMatch(configured, hex) == Some(configured) # ParseInt16(hex)

NetworkMessage(configured) ==
  IF configured = Kovan THEN "Please change your Metamask network to Kovan Test Network"
  ELSE IF configured = Goerli THEN "Please change your Metamask network to Goerli Test Network"
  ELSE "Please change your Metamask network to Ethereum Mainnet"

\* The addresses validateMetamask is called with.
Addresses ==
  { <<>>,
    <<"0", "x", "a", "B">>,
    <<"0", "x", "a", "b">>,
    <<"0", "x", "c", "d">> }

\* What walletStrategy.getAddresses() may resolve to.
WalletAddressLists ==
  { <<>>,
    << <<"0", "x", "A", "b">> >>,
    << <<"0", "x", "c", "d">> >>,
    << <<"0", "x", "c", "d">>, <<"0", "x", "a", "b">> >>,
    << <<"0", "x", "a", "b">>, <<"0", "x", "c", "d">> >> }

\* The chains the wallet may be on: the chain's id, and the text
\* walletStrategy.getEthereumChainId() resolves to for it.
WalletChains ==
  { [id |-> 1,   hex |-> <<"0", "x", "1">>],
    [id |-> 5,   hex |-> <<"0", "x", "5">>],
    [id |-> 42,  hex |-> <<"0", "x", "2", "a">>],
    [id |-> 42,  hex |-> <<"0", "x", "2", "A">>],
    [id |-> 16,  hex |-> <<"0", "x", "1", "0">>],
    [id |-> 137, hex |-> <<"0", "x", "8", "9">>] }

\* The values ETHEREUM_CHAIN_ID is configured to.
ConfiguredChainIds == {Mainnet, Goerli, Kovan}

(***************************************************************************)
(* State                                                                   *)
(***************************************************************************)

VARIABLES
  value,                      \* the source Ref's content
  options,                    \* the options record, fixed at construction
  read,                       \* the computed the caller has read, or "none"
  valueToBigNumber,           \* each computed: Undefined until its getter ran
  valueToFixed,
  valueToString,
  valueWithGasBuffer,
  valueWithGasBufferToFixed,
  valueWithGasBufferToString,
  minimal,                    \* result of a call of getNumberMinimalDecimals
  pc,                         \* where validateMetamask stands
  address,                    \* its argument
  chainId,                    \* ETHEREUM_CHAIN_ID
  addresses,                  \* what getAddresses resolved to
  walletChain,                \* the chain getEthereumChainId answered for
  calls,                      \* the wallet calls made, in order
  thrown                      \* the exceptions raised, in order

formatterVars ==
  <<value, options, read, valueToBigNumber, valueToFixed, valueToString,
    valueWithGasBuffer, valueWithGasBufferToFixed, valueWithGasBufferToString,
    minimal>>

metamaskVars == <<pc, address, chainId, addresses, walletChain, calls, thrown>>

vars == <<formatterVars, metamaskVars>>

NoOptions ==
  [ decimalPlaces |-> Undefined, minimalDecimalPlaces |-> Undefined,
    abbreviationFloor |-> Undefined, injFee |-> Undefined,
    roundingMode |-> Undefined, displayAbsoluteDecimalPlace |-> Undefined ]

\* A formatter none of whose computeds has been read.
FormatterFresh ==
  /\ read = "none"
  /\ valueToBigNumber = Undefined
  /\ valueToFixed = Undefined
  /\ valueToString = Undefined
  /\ valueWithGasBuffer = Undefined
  /\ valueWithGasBufferToFixed = Undefined
  /\ valueWithGasBufferToString = Undefined
  /\ minimal = Undefined

\* validateMetamask with nothing awaited, raised or answered yet.
MetamaskFresh ==
  /\ addresses = Undefined
  /\ walletChain = Undefined
  /\ calls = <<>>
  /\ thrown = <<>>

Init ==
  /\ value \in RawValues
  /\ options \in OptionsSet
  /\ FormatterFresh
  /\ pc = "idle"
  /\ address = <<>>
  /\ chainId = Mainnet
  /\ MetamaskFresh

\* The caller reads one computed of a fresh formatter: its getter runs, and
\* so do the getters it reads; the source value and the options are left
\* alone.
ReadValueToBigNumber ==
  /\ read = "none"
  /\ read' = "valueToBigNumber"
  /\ valueToBigNumber' = Some(ValueToBigNumberOf(value))
  /\ UNCHANGED <<value, options, valueToFixed, valueToString,
                 valueWithGasBuffer, valueWithGasBufferToFixed,
                 valueWithGasBufferToString, minimal, metamaskVars>>

ReadValueToFixed ==
  /\ read = "none"
  /\ read' = "valueToFixed"
  /\ valueToBigNumber' = Some(ValueToBigNumberOf(value))
  /\ valueToFixed' = Some(ValueToFixedOf(ValueToBigNumberOf(value), options))
  /\ UNCHANGED <<value, options, valueToString, valueWithGasBuffer,
                 valueWithGasBufferToFixed, valueWithGasBufferToString,
                 minimal, metamaskVars>>

ReadValueToString ==
  /\ read = "none"
  /\ read' = "valueToString"
  /\ valueToBigNumber' = Some(ValueToBigNumberOf(value))
  /\ valueToString' = Some(ValueToStringOf(ValueToBigNumberOf(value), options))
  /\ UNCHANGED <<value, options, valueToFixed, valueWithGasBuffer,
                 valueWithGasBufferToFixed, valueWithGasBufferToString,
                 minimal, metamaskVars>>

ReadValueWithGasBuffer ==
  /\ read = "none"
  /\ read' = "valueWithGasBuffer"
  /\ valueToBigNumber' = Some(ValueToBigNumberOf(value))
  /\ valueWithGasBuffer' =
       Some(ValueWithGasBufferOf(ValueToBigNumberOf(value), options))
  /\ UNCHANGED <<value, options, valueToFixed, valueToString,
                 valueWithGasBufferToFixed, valueWithGasBufferToString,
                 minimal, metamaskVars>>

ReadValueWithGasBufferToFixed ==
  /\ read = "none"
  /\ read' = "valueWithGasBufferToFixed"
  /\ valueToBigNumber' = Some(ValueToBigNumberOf(value))
  /\ valueWithGasBuffer' =
       IF BufferedToFixedReturnsEarly(ValueToBigNumberOf(value))
         THEN valueWithGasBuffer
         ELSE Some(ValueWithGasBufferOf(ValueToBigNumberOf(value), options))
  /\ valueWithGasBufferToFixed' =
       Some(ValueWithGasBufferToFixedOf(ValueToBigNumberOf(value), options))
  /\ UNCHANGED <<value, options, valueToFixed, valueToString,
                 valueWithGasBufferToString, minimal, metamaskVars>>

ReadValueWithGasBufferToString ==
  /\ read = "none"
  /\ read' = "valueWithGasBufferToString"
  /\ valueToBigNumber' = Some(ValueToBigNumberOf(value))
  /\ valueWithGasBuffer' =
       IF BufferedToStringReturnsEarly(ValueToBigNumberOf(value), options)
         THEN valueWithGasBuffer
         ELSE Some(ValueWithGasBufferOf(ValueToBigNumberOf(value), options))
  /\ valueWithGasBufferToString' =
       Some(ValueWithGasBufferToStringOf(ValueToBigNumberOf(value), options))
  /\ UNCHANGED <<value, options, valueToFixed, valueToString,
                 valueWithGasBufferToFixed, minimal, metamaskVars>>

Next ==
  \/ ReadValueToBigNumber
  \/ ReadValueToFixed
  \/ ReadValueToString
  \/ ReadValueWithGasBuffer
  \/ ReadValueWithGasBufferToFixed
  \/ ReadValueWithGasBufferToString

Spec == Init /\ [][Next]_vars

\* getNumberMinimalDecimals called on the canonical value on its own.
CallGetNumberMinimalDecimals ==
  /\ read = "none"
  /\ read' = "getNumberMinimalDecimals"
  /\ valueToBigNumber' = Some(ValueToBigNumberOf(value))
  /\ minimal' =
       Some(getNumberMinimalDecimals(ValueToBigNumberOf(value),
                                     options.minimalDecimalPlaces,
                                     DisplayAbsoluteDecimalPlace(options)))
  /\ UNCHANGED <<value, options, valueToFixed, valueToString,
                 valueWithGasBuffer, valueWithGasBufferToFixed,
                 valueWithGasBufferToString, metamaskVars>>

NextMinimal == CallGetNumberMinimalDecimals

SpecMinimal == Init /\ [][NextMinimal]_vars

(***************************************************************************)
(* validateMetamask(address), one action per stretch between two awaits    *)
(***************************************************************************)

InitMetamask ==
  /\ value = UndefinedValue
  /\ options = NoOptions
  /\ FormatterFresh
  /\ pc = "called"
  /\ address \in Addresses
  /\ chainId \in ConfiguredChainIds
  /\ MetamaskFresh

\* const chainId = ETHEREUM_CHAIN_ID; await walletStrategy.getAddresses()
AwaitAddresses ==
  /\ pc = "called"
  /\ pc' = "awaitAddresses"
  /\ calls' = Append(calls, "getAddresses")
  /\ UNCHANGED <<address, chainId, addresses, walletChain, thrown,
                 formatterVars>>

\* getAddresses resolves: the locked check, the address check, and then the
\* next await.
AddressesResolved ==
  /\ pc = "awaitAddresses"
  /\ \E list \in WalletAddressLists :
       /\ addresses' = Some(list)
       /\ IF MetamaskIsLocked(list)
            THEN /\ thrown' = Append(thrown, MetamaskException(LockedMessage))
                 /\ pc' = "thrown"
                 /\ calls' = calls
            ELSE IF ActiveAddressDoesntMatch(address, list)
            THEN /\ thrown' = Append(thrown, MetamaskException(WrongAddressMessage))
                 /\ pc' = "thrown"
                 /\ calls' = calls
            ELSE /\ thrown' = thrown
                 /\ pc' = "awaitChainId"
                 /\ calls' = Append(calls, "getEthereumChainId")
  /\ UNCHANGED <<address, chainId, walletChain, formatterVars>>

\* getAddresses rejects: the rejection leaves validateMetamask as it came.
AddressesRejected ==
  /\ pc = "awaitAddresses"
  /\ thrown' = Append(thrown, WalletRejection)
  /\ pc' = "thrown"
  /\ UNCHANGED <<address, chainId, addresses, walletChain, calls,
                 formatterVars>>

\* getEthereumChainId resolves: the network check, then the return.
ChainIdResolved ==
  /\ pc = "awaitChainId"
  /\ \E chain \in WalletChains :
       /\ walletChain' = Some(chain)
       /\ IF ChainIdDoesntMatch(chainId, chain.hex)
            THEN /\ thrown' =
                      Append(thrown, MetamaskException(NetworkMessage(chainId)))
                 /\ pc' = "thrown"
            ELSE /\ thrown' = thrown
                 /\ pc' = "returned"
  /\ UNCHANGED <<address, chainId, addresses, calls, formatterVars>>

ChainIdRejected ==
  /\ pc = "awaitChainId"
  /\ thrown' = Append(thrown, WalletRejection)
  /\ pc' = "thrown"
  /\ UNCHANGED <<address, chainId, addresses, walletChain, calls,
                 formatterVars>>

NextMetamask ==
  \/ AwaitAddresses
  \/ AddressesResolved
  \/ AddressesRejected
  \/ ChainIdResolved
  \/ ChainIdRejected

SpecMetamask == InitMetamask /\ [][NextMetamask]_vars

(***************************************************************************)
(* Properties                                                              *)
(***************************************************************************)

\* The canonical value, once a getter has computed it.
Canonical == The(valueToBigNumber)

\* 10^-k
TenToMinus(k) == ShiftedBy(One, -k)

\* The count of digits after the one decimal point of a text of digits, 0
\* for a text of digits without a point, -1 for any other text.
DigitsAfterPoint(chars) ==
  LET body == IF chars # <<>> /\ Head(chars) = "-" THEN Tail(chars) ELSE chars
      dots == {i \in 1..Len(body) : body[i] = "."}
  IN  IF \/ Cardinality(dots) > 1
         \/ \E i \in 1..Len(body) : body[i] # "." /\ ~IsDigit(body[i])
        THEN -1
      ELSE IF dots = {} THEN 0
      ELSE Len(body) - (CHOOSE i \in dots : TRUE)

\* The abbreviation branch of a render is taken.
AbbreviationTaken ==
  /\ ~Canonical.nan
  /\ Canonical.c # <<>>
  /\ options.abbreviationFloor # Undefined
  /\ The(options.abbreviationFloor).c # <<>>
  /\ Compare(Canonical, The(options.abbreviationFloor)) >= 0

NonZeroNumber == ~Canonical.nan /\ Canonical.c # <<>>

ConfiguredMinimalDecimalPlaces ==
  IF options.minimalDecimalPlaces = Undefined
    THEN DEFAULT_MINIMAL_DISPLAY_DECIMAL_PLACES
  ELSE The(options.minimalDecimalPlaces)

\* The configured rounding mode, round-down when none is configured.
ConfiguredRoundingMode ==
  IF options.roundingMode = Undefined THEN ROUND_DOWN
  ELSE The(options.roundingMode)

ConfiguredFee == IF options.injFee = Undefined THEN DEFAULT_INJ_FEE ELSE The(options.injFee)

\* "< " and 10^-k shown with k decimal places.
LessThanText(k) == <<"<", " ">> \o ToFixed(TenToMinus(k), k, ROUND_DOWN)

C2_BufferedValue ==
  valueWithGasBuffer # Undefined
    => LET b == The(valueWithGasBuffer)
       IN  /\ ~b.nan
           /\ b.s = 1
           /\ IF Canonical.nan \/ Compare(Canonical, ConfiguredFee) <= 0
                THEN b = ZERO_IN_BASE
                ELSE Plus(b, ConfiguredFee) = Canonical

\* A value above a non-zero fee, buffered to a non-zero amount.
C2_Witness ==
  /\ read = "valueWithGasBuffer"
  /\ ~Canonical.nan
  /\ ConfiguredFee.c # <<>>
  /\ Compare(Canonical, ConfiguredFee) > 0
  /\ The(valueWithGasBuffer).c # <<>>
  /\ Plus(The(valueWithGasBuffer), ConfiguredFee) = Canonical

\* A compact text read back: the number before a K, M, B or T suffix times
\* the suffix's power of ten, or the number itself when there is no suffix.
CompactTextValue(chars) ==
  LET bare == RemoveCommas(chars)
      last == IF bare = <<>> THEN "" ELSE bare[Len(bare)]
  IN  IF last \in {"K", "M", "B", "T"}
        THEN ShiftedBy(ParseDecimal(SubSeq(bare, 1, Len(bare) - 1)),
                       UnitPower(last))
        ELSE ParseDecimal(bare)

\* C3: an abbreviated output carries the approximation marker if and only
\* if its compact text, read back as a number, differs from the value.
C3_MarkedIffLossy ==
  read = "valueToFixed" /\ AbbreviationTaken
    => LET out    == The(valueToFixed)
           marked == Head(out) = APPROX
           text   == IF marked THEN Tail(out) ELSE out
       IN  marked <=> CompactTextValue(text) # Canonical

\* 1234455 with abbreviationFloor = 1000 and every other option left out,
\* read through valueToFixed.
C4_Case ==
  /\ value = Num(Dec(<<1, 2, 3, 4, 4, 5, 5>>, 6))
  /\ options = [NoOptions EXCEPT !.abbreviationFloor = Some(Dec(<<1>>, 3))]
  /\ read = "valueToFixed"

C5_LessThanAtExactPlaces ==
  /\ read = "valueToString"
  /\ ~AbbreviationTaken
  /\ NonZeroNumber
  /\ options.displayAbsoluteDecimalPlace = Some(TRUE)
  /\ Compare(Abs(Canonical), TenToMinus(ConfiguredMinimalDecimalPlaces)) <= 0
  /\ DecimalPlacesOf(Canonical) <= 12
  => The(valueToString) = LessThanText(DecimalPlacesOf(Canonical))

\* C6: with displayAbsoluteDecimalPlace off and no abbreviation, a non-zero
\* value v is rendered by valueToString as "< " and 10^-m at m decimal
\* places exactly when |v| < 10^-m, and otherwise as v with thousands
\* separators at decimalPlaces digits under the configured rounding mode.
C6_LessThanOrGrouped ==
  /\ read = "valueToString"
  /\ ~AbbreviationTaken
  /\ NonZeroNumber
  /\ options.displayAbsoluteDecimalPlace # Some(TRUE)
  => The(valueToString) =
       IF Compare(Abs(Canonical),
                  TenToMinus(ConfiguredMinimalDecimalPlaces)) < 0
         THEN LessThanText(ConfiguredMinimalDecimalPlaces)
         ELSE ToFormat(Canonical, DecimalPlaces(options),
                       ConfiguredRoundingMode)

\* A text is a decimal numeral: an optional minus sign, then digits with at
\* most one point among or around them.
IsNumericText(chars) ==
  LET body == IF chars # <<>> /\ Head(chars) = "-" THEN Tail(chars) ELSE chars
  IN  /\ \E i \in 1..Len(body) : IsDigit(body[i])
      /\ \A i \in 1..Len(body) : IsDigit(body[i]) \/ body[i] = "."
      /\ \A i, j \in 1..Len(body) : body[i] = "." /\ body[j] = "." => i = j

\* A decimal record in canonical form, NaN included.
WellFormedDecimal(a) ==
  /\ DOMAIN a = {"nan", "s", "c", "e"}
  /\ a.nan \in BOOLEAN
  /\ a.s \in {-1, 1}
  /\ a.e \in Int
  /\ \A i \in 1..Len(a.c) : a.c[i] \in 0..9
  /\ a.c # <<>> => a.c[1] # 0 /\ a.c[Len(a.c)] # 0
  /\ a.nan => a.c = <<>>

Absent == value.t \in {"undefined", "null"} \/ (value.t = "string" /\ value.s = <<>>)

NonNumericText == value.t = "string" /\ value.s # <<>> /\ ~IsNumericText(value.s)

\* C7 as stated: valueToBigNumber is always defined, and is exact zero,
\* never NaN, for every absent, empty or non-numeric input.
C7_NormalisesToZero ==
  valueToBigNumber # Undefined
    => /\ WellFormedDecimal(Canonical)
       /\ Absent \/ NonNumericText => Canonical = ZERO_IN_BASE

\* C7 amended: valueToBigNumber is always defined; it is exact zero for
\* every absent or empty input and for the numbers 0 and NaN; it is NaN,
\* not zero, for a non-empty text that is no decimal numeral; and a decimal
\* object is passed through as it is.
C7_NormalisesAbsentToZeroTextToNaN ==
  valueToBigNumber # Undefined
    => /\ WellFormedDecimal(Canonical)
       /\ Absent => Canonical = ZERO_IN_BASE
       /\ value.t = "number" /\ (value.n.nan \/ value.n.c = <<>>)
            => Canonical = ZERO_IN_BASE
       /\ NonNumericText => Canonical.nan
       /\ value.t = "bignumber" => Canonical = value.n

\* A non-numeric text normalised to NaN.
C7_Witness ==
  /\ read = "valueToBigNumber"
  /\ NonNumericText
  /\ Canonical.nan

\* The less-than text of the minimal display resolved from the canonical
\* (pre-buffer) value.
C8_LessThanOfValue ==
  LET min == getNumberMinimalDecimals(Canonical, options.minimalDecimalPlaces,
                                      DisplayAbsoluteDecimalPlace(options))
  IN  <<"<", " ">> \o ToFormat(min.minimalDisplayAmount,
                               min.minimalDecimalPlaces, ROUND_HALF_UP)

\* valueToString's pipeline decided on the canonical value, with the last
\* comparison and the grouped rendering on the buffered value.
C8_Pipeline ==
  IF ~NonZeroNumber THEN getFormattedZeroValue(DecimalPlaces(options))
  ELSE IF AbbreviationTaken THEN ValueToStringOf(Canonical, options)
  ELSE LET min == getNumberMinimalDecimals(Canonical,
                                           options.minimalDecimalPlaces,
                                           DisplayAbsoluteDecimalPlace(options))
           b   == The(valueWithGasBuffer)
       IN  IF valueWithGasBuffer = Undefined THEN <<>>
           ELSE IF Compare(Abs(b), min.minimalDisplayAmount) < 0
             THEN C8_LessThanOfValue
             ELSE ToFormat(b, DecimalPlaces(options), RoundingMode(options))

\* C8 as stated: valueWithGasBufferToString is valueToString's pipeline with
\* only the last comparison and the rendering on the buffered value; and for
\* a non-zero value at most the fee it is the less-than text of the
\* threshold resolved from the value.
C8_BufferedPipeline ==
  read = "valueWithGasBufferToString"
    => /\ The(valueWithGasBufferToString) = C8_Pipeline
       /\ NonZeroNumber /\ Compare(Canonical, ConfiguredFee) <= 0
            => The(valueWithGasBufferToString) = C8_LessThanOfValue

\* C8 amended: as stated, the less-than text being the output for a
\* non-zero value at most the fee that does not reach the abbreviation
\* floor (one that does is abbreviated, as in valueToString).
C8_BufferedPipelineBelowFloor ==
  read = "valueWithGasBufferToString"
    => /\ The(valueWithGasBufferToString) = C8_Pipeline
       /\ AbbreviationTaken
            => The(valueWithGasBufferToString)
                 = ValueToStringOf(Canonical, options)
       /\ NonZeroNumber /\ ~AbbreviationTaken
            /\ Compare(Canonical, ConfiguredFee) <= 0
            => The(valueWithGasBufferToString) = C8_LessThanOfValue

\* A non-zero value at most the fee, rendered as a less-than text.
C8_Witness ==
  /\ read = "valueWithGasBufferToString"
  /\ NonZeroNumber
  /\ ~AbbreviationTaken
  /\ Compare(Canonical, ConfiguredFee) <= 0
  /\ The(valueWithGasBufferToString) = C8_LessThanOfValue
  /\ Head(The(valueWithGasBufferToString)) = "<"

\* C9: getNumberMinimalDecimals returns (2, 0) for zero; (k, 10^-k) with
\* k = min(exact decimal places, 12) when displayAbsoluteDecimalPlace is set
\* and |v| <= 10^-minimalDecimalPlaces; (m, 10^-m) in every other case; and
\* never more than max(12, m) places.
C9_ResolvesOnMagnitude ==
  minimal # Undefined
    => LET m == ConfiguredMinimalDecimalPlaces
           k == Min2(DecimalPlacesOf(Canonical), 12)
       IN  /\ The(minimal) =
                IF Canonical = ZERO_IN_BASE
                  THEN [minimalDecimalPlaces |-> 2,
                        minimalDisplayAmount |-> ZERO_IN_BASE]
                ELSE IF /\ options.displayAbsoluteDecimalPlace = Some(TRUE)
                        /\ ~Canonical.nan
                        /\ Compare(Abs(Canonical), TenToMinus(m)) <= 0
                  THEN [minimalDecimalPlaces |-> k,
                        minimalDisplayAmount |-> TenToMinus(k)]
                ELSE [minimalDecimalPlaces |-> m,
                      minimalDisplayAmount |-> TenToMinus(m)]
           /\ The(minimal).minimalDecimalPlaces <= Max2(12, m)

UpperOf(ch) ==
  CASE ch = "a" -> "A"
    [] ch = "b" -> "B"
    [] ch = "c" -> "C"
    [] ch = "d" -> "D"
    [] ch = "e" -> "E"
    [] ch = "f" -> "F"
    [] ch = "x" -> "X"
    [] OTHER -> ch

EqualIgnoringCase(x, y) ==
  Len(x) = Len(y) /\ \A i \in 1..Len(x) : UpperOf(x[i]) = UpperOf(y[i])

WalletReportsAnAddress == addresses # Undefined /\ Len(The(addresses)) >= 1

AddressAccepted ==
  address = <<>> \/ EqualIgnoringCase(The(addresses)[1], address)

OnConfiguredChain == walletChain # Undefined /\ The(walletChain).id = chainId

\* C10: validateMetamask returns without throwing if and only if the wallet
\* reports an address, the given address is empty or is the wallet's first
\* address ignoring case, and the wallet is on the configured chain; the
\* checks run locked, wrong address, wrong network, one MetamaskException is
\* raised for the first that fails, and the chain id is requested only once
\* the first two have passed.
C10_Validate ==
  /\ Len(thrown) <= 1
  /\ pc = "returned"
       => /\ WalletReportsAnAddress /\ AddressAccepted /\ OnConfiguredChain
          /\ thrown = <<>>
  /\ pc = "thrown"
       => /\ ~(WalletReportsAnAddress /\ AddressAccepted /\ OnConfiguredChain)
          /\ Len(thrown) = 1
          /\ thrown[1].type = "MetamaskException"
               => thrown[1].message =
                    IF ~WalletReportsAnAddress THEN LockedMessage
                    ELSE IF ~AddressAccepted THEN WrongAddressMessage
                    ELSE NetworkMessage(chainId)
          /\ addresses # Undefined /\ ~WalletReportsAnAddress
               => thrown[1] = MetamaskException(LockedMessage)
          /\ WalletReportsAnAddress /\ ~AddressAccepted
               => thrown[1] = MetamaskException(WrongAddressMessage)
          /\ WalletReportsAnAddress /\ AddressAccepted
               /\ walletChain # Undefined
               => thrown[1] = MetamaskException(NetworkMessage(chainId))
  /\ (\E i \in 1..Len(calls) : calls[i] = "getEthereumChainId")
       => /\ WalletReportsAnAddress /\ AddressAccepted
          /\ calls = <<"getAddresses", "getEthereumChainId">>
  /\ ~(WalletReportsAnAddress /\ AddressAccepted)
       => walletChain = Undefined

\* A return for an address that differs from the wallet's first address in
\* case only.
C10_Witness ==
  /\ pc = "returned"
  /\ address # <<>>
  /\ The(addresses)[1] # address
  /\ thrown = <<>>

====
